---- MODULE Spec2Model ----
(***************************************************************************)
(* Model of the sampling-and-classification engine of                      *)
(* Flexibility_Under_Low_Observability:                                    *)
(*   src/code/data_sampler.py  (profile_creation and the samplers)         *)
(*   src/code/monte_carlo.py   (the Monte Carlo sweep)                     *)
(*   src/code/utils.py         (limit checks, update_pqs, update_pqs_wl)   *)
(*                                                                         *)
(* Numbers.  Network data (sn_mva, p_mw, q_mvar) are integers.  A raw      *)
(* random value r stands for r/Scale, and every power written into a       *)
(* profile is kept multiplied by Scale, so sn_mva*raw is the integer       *)
(* sn_mva*r and the rated power is sn_mva*Scale.  A value that the code    *)
(* obtains through np.sqrt is kept exactly as a sign and a square          *)
(* (Real(s, x) stands for s*sqrt(x)/Scale); np.sqrt of a negative number   *)
(* is NaN.                                                                 *)
(*                                                                         *)
(* Python lists built with append or tolist() are sequences (1-based);     *)
(* pandas / numpy tables addressed by index are functions on 0..n-1.       *)
(***************************************************************************)
EXTENDS Integers, Sequences, FiniteSets, TLC

VARIABLES
    \* ---- profile_creation (data_sampler.py) ----
    args,          \* arguments of profile_creation
    net,           \* net.sgen and net.load
    stream,        \* which output sequence the seeded generator produces
    rng,           \* state of the RandomState: number of values drawn so far
    pc,            \* position inside profile_creation
    frame,         \* locals of profile_creation: pq_profiles, pq_load_profiles, profiles
    random_p,      \* the raw array of the latest create_samples / create_load_samples
    last,          \* the latest sampling call: kind, no_samples, distribution, out
    result,        \* return value of profile_creation
    calls,         \* number of invocations of profile_creation started
    first_result,  \* return value of the first invocation
    \* ---- Monte Carlo sweep (monte_carlo.py) ----
    settings,      \* the SettingReader fields the sweep reads
    pq_profiles,   \* the profile batch handed to all_pf_simulations
    k,             \* 1-based position of the for loop in pq_profiles
    spc,           \* position inside the sweep
    res,           \* net.res_bus / res_line / res_trafo / res_ext_grid
    x_flexible, y_flexible, prof_flexible,
    x_non_flexible, y_non_flexible, prof_non_flexible,
    log,           \* the "did not converge" lines printed
    solver_calls,  \* what pp.runpp was given and what it answered, per call
    \* ---- the main run (main.py) ----
    mpc,           \* position inside __main__
    mc_sim         \* settings.mc_sim

sampler_vars == <<args, stream, rng, pc, frame, random_p, last, result, calls, first_result>>
sweep_vars == <<settings, pq_profiles, k, spc, res, x_flexible, y_flexible, prof_flexible,
                x_non_flexible, y_non_flexible, prof_non_flexible, log, solver_calls>>
main_vars == <<mpc, mc_sim>>
vars == <<sampler_vars, net, sweep_vars, main_vars>>

-----------------------------------------------------------------------------
(* Bounds of the model *)

\* raw values are multiples of 1/Scale
Scale == 100
\* largest no_samples given to profile_creation
MaxSamples == 10
\* the generator's output sequence repeats after this many values
StreamPeriod == 2
\* longest batch handed to the sweep
MaxBatch == 3

-----------------------------------------------------------------------------
(* Numbers *)

NaN == [nan |-> TRUE, sgn |-> 0, sq |-> 0]
Real(s, x) == [nan |-> FALSE, sgn |-> s, sq |-> x]
Sq(x) == x * x
Abs(x) == IF x < 0 THEN -x ELSE x
FromInt(v) == Real(IF v < 0 THEN -1 ELSE 1, Sq(v))
\* np.sqrt of x (x is a squared quantity): NaN when x < 0
Sqrt(x) == IF x < 0 THEN NaN ELSE Real(1, x)
\* s * r for s in {-1, 1}
Times(s, r) == IF r.nan THEN NaN ELSE Real(s * r.sgn, r.sq)
\* r >= abs(v) for a non-negative r; every comparison with NaN is False
GeAbs(r, v) == IF r.nan THEN FALSE ELSE r.sq >= Sq(v)
LenT(t) == Cardinality(DOMAIN t)

\* (-1)**j
SignPowConst(j) == 1
SignPow(j) == IF j % 2 = 0 THEN 1 ELSE -1

-----------------------------------------------------------------------------
(* The seeded generator: np.random.RandomState(21).  Its output is a fixed  *)
(* sequence; the model takes every sequence of period StreamPeriod over     *)
(* three quantiles (-1: below the mean, 0: the mean, 1: above the mean).    *)

RECURSIVE Pow3(_)
Pow3(n) == IF n = 0 THEN 1 ELSE 3 * Pow3(n - 1)

Streams == 0 .. (Pow3(StreamPeriod) - 1)

\* the quantile of the value at position pos of the stream
StreamAt(pos) == ((stream \div Pow3(pos % StreamPeriod)) % 3) - 1

\* rng = RandomState(21): a fresh generator stands at position 0
SeedKeep(cur) == IF cur < 0 THEN 0 ELSE cur
Seed(cur) == 0

\* one value of rng.normal(mean, sd, ...) / rng.uniform(0, 1, ...) at position pos
NormalAt(pos, mean, sd) == mean + StreamAt(pos) * sd
UniformAt(pos) ==
    CASE StreamAt(pos) = -1 -> 0
      [] StreamAt(pos) = 0 -> Scale \div 2
      [] OTHER -> Scale - 1

Distributions == {"Normal", "Uniform", "Normal_Limits_Oriented", "No_change"}

\* rng.normal(mean, sd, [rows, cols]): filled row by row from position pos
NormalArr(pos, mean, sd, rows, cols) ==
    [r \in 0 .. rows - 1 |-> [c \in 0 .. cols - 1 |-> NormalAt(pos + r * cols + c, mean, sd)]]

\* the 'Normal_Limits_Oriented', dof = 2 array: random_p1 .. random_p4 concatenated
LimitsOrientedArr(pos, n) ==
    LET q == n \div 4
        rest == n - q
    IN [r \in 0 .. (3 * q + rest) - 1 |->
          IF r < q THEN
              [c \in 0 .. 1 |-> NormalAt(pos + 2 * r + c, 0, Scale)]
          ELSE IF r < 2 * q THEN
              [c \in 0 .. 1 |-> IF c = 0 THEN NormalAt(pos + 2 * q + (r - q), 0, Scale)
                                         ELSE NormalAt(pos + 3 * q + (r - q), Scale, Scale)]
          ELSE IF r < 3 * q THEN
              [c \in 0 .. 1 |-> IF c = 0 THEN NormalAt(pos + 4 * q + (r - 2 * q), Scale, Scale)
                                         ELSE NormalAt(pos + 5 * q + (r - 2 * q), 0, Scale)]
          ELSE
              [c \in 0 .. 1 |-> IF c = 0
                                THEN NormalAt(pos + 6 * q + (r - 3 * q), Scale \div 2, Scale)
                                ELSE NormalAt(pos + 6 * q + rest + (r - 3 * q), Scale \div 2, Scale)]]

\* sample_from_rng: [ok, random_p, rng]; ok = FALSE is the failed assertion
sample_from_rng_drawing_ones(distribution, no_samples_dg, dof, g) ==
    CASE distribution = "Normal" ->
           [ok |-> TRUE, rng |-> g + no_samples_dg * dof,
            random_p |-> NormalArr(g, Scale, Scale \div 50, no_samples_dg, dof)]
      [] distribution = "Uniform" ->
           [ok |-> TRUE, rng |-> g + no_samples_dg * dof,
            random_p |-> [r \in 0 .. no_samples_dg - 1 |->
                            [c \in 0 .. dof - 1 |-> UniformAt(g + r * dof + c)]]]
      [] distribution = "Normal_Limits_Oriented" /\ dof = 1 ->
           [ok |-> TRUE, rng |-> g + no_samples_dg * dof,
            random_p |-> NormalArr(g, Scale, Scale, no_samples_dg, dof)]
      [] distribution = "Normal_Limits_Oriented" /\ dof = 2 ->
           [ok |-> TRUE,
            rng |-> g + 6 * (no_samples_dg \div 4) + 2 * (no_samples_dg - no_samples_dg \div 4),
            random_p |-> LimitsOrientedArr(g, no_samples_dg)]
      [] distribution = "No_change" ->
           [ok |-> TRUE, rng |-> g + no_samples_dg * dof,
            random_p |-> [r \in 0 .. no_samples_dg - 1 |-> [c \in 0 .. dof - 1 |-> Scale]]]
      [] OTHER ->
           [ok |-> FALSE, rng |-> g, random_p |-> << >>]
sample_from_rng(distribution, no_samples_dg, dof, g) ==
    CASE distribution = "Normal" ->
           [ok |-> TRUE, rng |-> g + no_samples_dg * dof,
            random_p |-> NormalArr(g, Scale, Scale \div 50, no_samples_dg, dof)]
      [] distribution = "Uniform" ->
           [ok |-> TRUE, rng |-> g + no_samples_dg * dof,
            random_p |-> [r \in 0 .. no_samples_dg - 1 |->
                            [c \in 0 .. dof - 1 |-> UniformAt(g + r * dof + c)]]]
      [] distribution = "Normal_Limits_Oriented" /\ dof = 1 ->
           [ok |-> TRUE, rng |-> g + no_samples_dg * dof,
            random_p |-> NormalArr(g, Scale, Scale, no_samples_dg, dof)]
      [] distribution = "Normal_Limits_Oriented" /\ dof = 2 ->
           [ok |-> TRUE,
            rng |-> g + 6 * (no_samples_dg \div 4) + 2 * (no_samples_dg - no_samples_dg \div 4),
            random_p |-> LimitsOrientedArr(g, no_samples_dg)]
      [] distribution = "No_change" ->
           [ok |-> TRUE, rng |-> g,
            random_p |-> [r \in 0 .. no_samples_dg - 1 |-> [c \in 0 .. dof - 1 |-> Scale]]]
      [] OTHER ->
           [ok |-> FALSE, rng |-> g, random_p |-> << >>]

-----------------------------------------------------------------------------
(* Constraint projections *)

\* the active-power clamp: cap is sn_mva (generators) or the load's p_mw
ClampPNoLower(cap, p_perc) ==
    IF p_perc >= Scale THEN cap * Scale ELSE cap * p_perc
ClampP(cap, p_perc) ==
    IF p_perc >= Scale THEN cap * Scale
    ELSE IF p_perc <= 0 THEN 0
    ELSE cap * p_perc

\* sample_new_point, one [p_new, q_new]: iteration j, generator i (0-based)
GenEntry(sgen, rp, j, i) ==
    LET p_perc == rp[LenT(sgen) * j + i][0]
        p_new == sgen[i].sn_mva * p_perc
        q_new == Times(SignPow(j), Sqrt(Sq(sgen[i].sn_mva * Scale) - Sq(p_new)))
    IN <<p_new, q_new>>

sample_new_point(sgen, rp, no_samples) ==
    [j1 \in 1 .. no_samples |->
        [i1 \in 1 .. LenT(sgen) |-> GenEntry(sgen, rp, j1 - 1, i1 - 1)]]

\* sample_new_non_mp_point, one [p_new, q_new]
GenEntryNonMp(sgen, rp, j, i) ==
    LET row == rp[LenT(sgen) * j + i]
        p_new == ClampP(sgen[i].sn_mva, row[0])
        q_max == Sqrt(Sq(sgen[i].sn_mva * Scale) - Sq(p_new))
        q_new == IF GeAbs(q_max, sgen[i].sn_mva * row[1])
                 THEN FromInt(SignPow(j) * sgen[i].sn_mva * row[1])
                 ELSE Times(SignPow(j), q_max)
    IN <<p_new, q_new>>

sample_new_non_mp_point(sgen, rp, no_samples) ==
    [j1 \in 1 .. no_samples |->
        [i1 \in 1 .. LenT(sgen) |-> GenEntryNonMp(sgen, rp, j1 - 1, i1 - 1)]]

\* load_change = 1
load_change == 1

\* sample_new_load_point, one [p_new, q_new]: load i of the table, raw row `row`
LoadEntry(loads, i, row) ==
    LET p_new == load_change * ClampP(loads[i].p_mw, row[0])
        q_max == Sqrt(load_change * load_change * Sq(loads[i].sn_mva * Scale) - Sq(p_new))
        q_new == IF GeAbs(q_max, load_change * loads[i].q_mvar * row[1])
                 THEN FromInt(loads[i].q_mvar * row[1])
                 ELSE q_max
    IN <<p_new, Times(load_change, q_new)>>

sample_new_load_point_alternating(loads, rp, no_samples, flex_loads) ==
    LET Signed(j, e) == <<e[1], Times(SignPow(j), e[2])>>
    IN IF flex_loads = << >> THEN
           [j1 \in 1 .. no_samples |->
               [i1 \in 1 .. LenT(loads) |->
                   Signed(j1 - 1, LoadEntry(loads, i1 - 1,
                                            rp[LenT(loads) * (j1 - 1) + (i1 - 1)]))]]
       ELSE
           [j1 \in 1 .. no_samples |->
               [idx1 \in 1 .. Len(flex_loads) |->
                   Signed(j1 - 1, LoadEntry(loads, flex_loads[idx1],
                                            rp[Len(flex_loads) * (j1 - 1) + (idx1 - 1)]))]]
sample_new_load_point(loads, rp, no_samples, flex_loads) ==
    IF flex_loads = << >> THEN
        [j1 \in 1 .. no_samples |->
            [i1 \in 1 .. LenT(loads) |->
                LoadEntry(loads, i1 - 1, rp[LenT(loads) * (j1 - 1) + (i1 - 1)])]]
    ELSE
        [j1 \in 1 .. no_samples |->
            [idx1 \in 1 .. Len(flex_loads) |->
                LoadEntry(loads, flex_loads[idx1],
                          rp[Len(flex_loads) * (j1 - 1) + (idx1 - 1)])]]

\* create_samples: [ok, pq_profiles, rng, random_p]
create_samples(no_samples, n, distribution, keep_mp, g) ==
    LET dof == IF keep_mp THEN 1 ELSE 2
        s == sample_from_rng(distribution, no_samples * LenT(n.sgen), dof, g)
    IN IF ~s.ok THEN [ok |-> FALSE, pq_profiles |-> << >>, rng |-> g, random_p |-> << >>]
       ELSE [ok |-> TRUE, rng |-> s.rng, random_p |-> s.random_p,
             pq_profiles |-> IF keep_mp
                             THEN sample_new_point(n.sgen, s.random_p, no_samples)
                             ELSE sample_new_non_mp_point(n.sgen, s.random_p, no_samples)]

\* create_load_samples: [ok, pq_profiles, rng, random_p]
create_load_samples_reseeded(no_samples, n, distribution, flex_loads, g) ==
    LET flex_load_len == IF flex_loads = << >> THEN LenT(n.load) ELSE Len(flex_loads)
        s == sample_from_rng(distribution, no_samples * flex_load_len, 2, Seed(g))
    IN IF ~s.ok THEN [ok |-> FALSE, pq_profiles |-> << >>, rng |-> g, random_p |-> << >>]
       ELSE [ok |-> TRUE, rng |-> s.rng, random_p |-> s.random_p,
             pq_profiles |-> sample_new_load_point(n.load, s.random_p, no_samples, flex_loads)]
create_load_samples(no_samples, n, distribution, flex_loads, g) ==
    LET flex_load_len == IF flex_loads = << >> THEN LenT(n.load) ELSE Len(flex_loads)
        s == sample_from_rng(distribution, no_samples * flex_load_len, 2, g)
    IN IF ~s.ok THEN [ok |-> FALSE, pq_profiles |-> << >>, rng |-> g, random_p |-> << >>]
       ELSE [ok |-> TRUE, rng |-> s.rng, random_p |-> s.random_p,
             pq_profiles |-> sample_new_load_point(n.load, s.random_p, no_samples, flex_loads)]

\* net.sgen and net.load after create_samples / create_load_samples returned or
\* raised: the samplers read sn_mva, p_mw and q_mvar and assign to none of them
NetAfterSamplingRated(n) ==
    [n EXCEPT !.sgen = [i \in DOMAIN n.sgen |-> [n.sgen[i] EXCEPT !.p_mw = n.sgen[i].sn_mva]]]
NetAfterSampling(n) == n

\* np.concatenate((a, b), axis=1) of two batches: fails unless both have the
\* same, non-zero number of profiles (an empty list has no axis 1)
ConcatAxis1Ok(a, b) == Len(a) = Len(b) /\ Len(a) > 0
ConcatAxis1Reversed(a, b) == [j1 \in 1 .. Len(a) |-> b[j1] \o a[j1]]
ConcatAxis1(a, b) == [j1 \in 1 .. Len(a) |-> a[j1] \o b[j1]]
\* a[:n]
PrefixFromEnd(a, n) == SubSeq(a, (IF n < Len(a) THEN Len(a) - n ELSE 0) + 1, Len(a))
Prefix(a, n) == SubSeq(a, 1, IF n < Len(a) THEN n ELSE Len(a))

-----------------------------------------------------------------------------
(* Networks and arguments *)

Tbl(seq) == [i \in 0 .. Len(seq) - 1 |-> seq[i + 1]]
SgenRow(sn, p, q) == [sn_mva |-> sn, p_mw |-> p, q_mvar |-> q]
LoadRow(p, q, sn) == [p_mw |-> p, q_mvar |-> q, sn_mva |-> sn]

\* a network whose loads lie inside their rating, and one whose loads were
\* shifted (as apply_uss does, p_mw changed and sn_mva left alone)
NetRated ==
    [sgen |-> Tbl(<<SgenRow(1, 1, 0), SgenRow(2, 1, 1)>>),
     load |-> Tbl(<<LoadRow(1, 1, 2), LoadRow(2, -1, 3)>>)]
NetShifted ==
    [sgen |-> Tbl(<<SgenRow(2, 2, 0)>>),
     load |-> Tbl(<<LoadRow(2, 1, 1), LoadRow(-1, 2, 1)>>)]
Nets == {NetRated, NetShifted}

\* services='DG Only' in the signature of profile_creation
DefaultServices == "DG Only"

\* 'DG Only' is the default of the services parameter, a tag outside the accepted
\* ones; 'Gaussian' stands for a distribution tag outside the accepted ones
ArgsSet ==
    [no_samples : 2 .. MaxSamples,
     distribution : Distributions \cup {"Gaussian"},
     keep_mp : BOOLEAN,
     services : {"DG only", "All", "Load only", DefaultServices},
     flexible_loads : {<< >>, <<1>>, <<1, 0>>}]

NoResult == [returned |-> FALSE, profiles |-> << >>]
Returned(p) == [returned |-> TRUE, profiles |-> p]
EmptyFrame == [pq_profiles |-> << >>, pq_load_profiles |-> << >>, profiles |-> << >>]
NoCall == [kind |-> "none", no_samples |-> 0, distribution |-> "", out |-> << >>]
Called(kind, n, d, out) == [kind |-> kind, no_samples |-> n, distribution |-> d, out |-> out]

\* the main run is not modelled: profile_creation or the sweep is called directly
MainIdle == mpc = "idle" /\ mc_sim = FALSE

SweepIdle ==
    /\ settings = [fsps |-> "", fsp_pv |-> {}, fsp_wt |-> {}, fsp_load |-> << >>,
                   max_curr |-> 0, max_volt |-> 0, min_volt |-> 0]
    /\ pq_profiles = << >>
    /\ k = 0
    /\ spc = "idle"
    /\ res = [converged |-> FALSE]
    /\ x_flexible = << >> /\ y_flexible = << >> /\ prof_flexible = << >>
    /\ x_non_flexible = << >> /\ y_non_flexible = << >> /\ prof_non_flexible = << >>
    /\ log = << >>
    /\ solver_calls = << >>

Init ==
    /\ args \in ArgsSet
    /\ net \in Nets
    /\ stream \in Streams
    /\ rng = -1
    /\ pc = "entry"
    /\ frame = EmptyFrame
    /\ random_p = << >>
    /\ last = NoCall
    /\ result = NoResult
    /\ calls = 0
    /\ first_result = NoResult
    /\ SweepIdle
    /\ MainIdle

-----------------------------------------------------------------------------
(* profile_creation, one action per sampling call *)

\* the integer parts int(no_samples/2), int(1*no_samples/8), int(3*no_samples/8)
Half(n) == n \div 2
Eighth(n) == n \div 8
ThreeEighths(n) == (3 * n) \div 8

Fail ==
    /\ pc' = "failed"
    /\ UNCHANGED <<frame, random_p, last, result>>

\* the if / elif chain over services: where profile_creation goes first
BranchOfLenient(services) ==
    CASE services = "All" -> "all_1"
      [] services = "Load only" -> "load_1"
      [] OTHER -> "dg_only"
BranchOf(services) ==
    CASE services = "DG only" -> "dg_only"
      [] services = "All" -> "all_1"
      [] services = "Load only" -> "load_1"
      [] OTHER -> "failed"

\* rng = RandomState(21) and the choice of the branch
Enter ==
    /\ pc = "entry"
    /\ rng' = Seed(rng)
    /\ calls' = calls + 1
    /\ pc' = BranchOf(args.services)
    /\ UNCHANGED <<args, net, stream, frame, random_p, last, result, first_result, sweep_vars, main_vars>>

\* services == 'DG only'
DgOnly ==
    /\ pc = "dg_only"
    /\ \E c \in {create_samples(args.no_samples, net, args.distribution, args.keep_mp, rng)} :
          IF ~c.ok THEN Fail /\ UNCHANGED rng
          ELSE /\ rng' = c.rng
               /\ random_p' = c.random_p
               /\ last' = Called("dg", args.no_samples, args.distribution, c.pq_profiles)
               /\ frame' = [frame EXCEPT !.pq_profiles = c.pq_profiles,
                                         !.profiles = c.pq_profiles]
               /\ result' = Returned(c.pq_profiles)
               /\ pc' = "done"
    /\ net' = NetAfterSampling(net)
    /\ UNCHANGED <<args, stream, calls, first_result, sweep_vars, main_vars>>

\* services == 'All': generators, requested distribution, int(no_samples/2)
All1 ==
    /\ pc = "all_1"
    /\ \E n \in {Half(args.no_samples)} :
       \E c \in {create_samples(n, net, args.distribution, args.keep_mp, rng)} :
          IF ~c.ok THEN Fail /\ UNCHANGED rng
          ELSE /\ rng' = c.rng
               /\ random_p' = c.random_p
               /\ last' = Called("dg", n, args.distribution, c.pq_profiles)
               /\ frame' = [frame EXCEPT !.pq_profiles = c.pq_profiles]
               /\ pc' = "all_2"
               /\ UNCHANGED result
    /\ net' = NetAfterSampling(net)
    /\ UNCHANGED <<args, stream, calls, first_result, sweep_vars, main_vars>>

\* services == 'All': loads, requested distribution, int(no_samples/2)
All2 ==
    /\ pc = "all_2"
    /\ \E n \in {Half(args.no_samples)} :
       \E c \in {create_load_samples(n, net, args.distribution, args.flexible_loads, rng)} :
          IF ~c.ok \/ ~ConcatAxis1Ok(frame.pq_profiles, c.pq_profiles)
          THEN Fail /\ UNCHANGED rng
          ELSE /\ rng' = c.rng
               /\ random_p' = c.random_p
               /\ last' = Called("load", n, args.distribution, c.pq_profiles)
               /\ frame' = [frame EXCEPT
                              !.pq_load_profiles = c.pq_profiles,
                              !.profiles = ConcatAxis1(frame.pq_profiles, c.pq_profiles)]
               /\ pc' = "all_3"
               /\ UNCHANGED result
    /\ net' = NetAfterSampling(net)
    /\ UNCHANGED <<args, stream, calls, first_result, sweep_vars, main_vars>>

\* services == 'All': generators only, int(1*no_samples/8), the first load draws reused
All3 ==
    /\ pc = "all_3"
    /\ \E n \in {Eighth(args.no_samples)} :
       \E c \in {create_samples(n, net, "No_change", args.keep_mp, rng)} :
       \E reused \in {Prefix(frame.pq_load_profiles, n)} :
          /\ rng' = c.rng
          /\ random_p' = c.random_p
          /\ last' = Called("dg", n, "No_change", c.pq_profiles)
          /\ IF ConcatAxis1Ok(c.pq_profiles, reused)
             THEN /\ frame' = [frame EXCEPT !.profiles =
                                 frame.profiles \o ConcatAxis1(c.pq_profiles, reused)]
                  /\ pc' = "all_4"
             ELSE /\ frame' = frame
                  /\ pc' = "failed"
          /\ UNCHANGED result
    /\ net' = NetAfterSampling(net)
    /\ UNCHANGED <<args, stream, calls, first_result, sweep_vars, main_vars>>

\* services == 'All': loads only, int(3*no_samples/8), the first generator draws reused
All4 ==
    /\ pc = "all_4"
    /\ \E n \in {ThreeEighths(args.no_samples)} :
       \E c \in {create_load_samples(n, net, "No_change", args.flexible_loads, rng)} :
       \E reused \in {Prefix(frame.pq_profiles, n)} :
          /\ rng' = c.rng
          /\ random_p' = c.random_p
          /\ last' = Called("load", n, "No_change", c.pq_profiles)
          /\ IF ConcatAxis1Ok(reused, c.pq_profiles)
             THEN /\ frame' = [frame EXCEPT
                                 !.pq_load_profiles = c.pq_profiles,
                                 !.profiles = frame.profiles
                                              \o ConcatAxis1(reused, c.pq_profiles)]
                  /\ result' = Returned(frame'.profiles)
                  /\ pc' = "done"
             ELSE /\ frame' = [frame EXCEPT !.pq_load_profiles = c.pq_profiles]
                  /\ result' = result
                  /\ pc' = "failed"
    /\ net' = NetAfterSampling(net)
    /\ UNCHANGED <<args, stream, calls, first_result, sweep_vars, main_vars>>

\* services == 'Load only': generators under 'No_change'
Load1 ==
    /\ pc = "load_1"
    /\ \E c \in {create_samples(args.no_samples, net, "No_change", args.keep_mp, rng)} :
          /\ rng' = c.rng
          /\ random_p' = c.random_p
          /\ last' = Called("dg", args.no_samples, "No_change", c.pq_profiles)
          /\ frame' = [frame EXCEPT !.pq_profiles = c.pq_profiles]
          /\ pc' = "load_2"
          /\ UNCHANGED result
    /\ net' = NetAfterSampling(net)
    /\ UNCHANGED <<args, stream, calls, first_result, sweep_vars, main_vars>>

\* services == 'Load only': loads under the requested distribution
Load2 ==
    /\ pc = "load_2"
    /\ \E c \in {create_load_samples(args.no_samples, net, args.distribution,
                                     args.flexible_loads, rng)} :
          IF ~c.ok \/ ~ConcatAxis1Ok(frame.pq_profiles, c.pq_profiles)
          THEN Fail /\ UNCHANGED rng
          ELSE /\ rng' = c.rng
               /\ random_p' = c.random_p
               /\ last' = Called("load", args.no_samples, args.distribution, c.pq_profiles)
               /\ frame' = [frame EXCEPT
                              !.pq_load_profiles = c.pq_profiles,
                              !.profiles = ConcatAxis1(frame.pq_profiles, c.pq_profiles)]
               /\ result' = Returned(frame'.profiles)
               /\ pc' = "done"
    /\ net' = NetAfterSampling(net)
    /\ UNCHANGED <<args, stream, calls, first_result, sweep_vars, main_vars>>

\* a further invocation with the same arguments and the same network
CallAgain ==
    /\ pc \in {"done", "failed"}
    /\ calls < 2
    /\ first_result' = result
    /\ result' = NoResult
    /\ frame' = EmptyFrame
    /\ random_p' = << >>
    /\ last' = NoCall
    /\ pc' = "entry"
    /\ UNCHANGED <<args, net, stream, rng, calls, sweep_vars, main_vars>>

Next ==
    \/ Enter
    \/ DgOnly
    \/ All1
    \/ All2
    \/ All3
    \/ All4
    \/ Load1
    \/ Load2
    \/ CallAgain

Spec == Init /\ [][Next]_vars

-----------------------------------------------------------------------------
(* utils.py: limit checks and the write of one profile onto the network *)

\* all(upper_limit >= abs(x) for x in net.res_line['loading_percent'])
check_line_current_limits(r, upper_limit) ==
    \A n \in 1 .. Len(r.line_loading) : upper_limit >= Abs(r.line_loading[n])

\* all(upper_limit >= abs(x) for x in net.res_trafo['loading_percent'])
check_trafo_current_limits(r, upper_limit) ==
    \A n \in 1 .. Len(r.trafo_loading) : upper_limit >= Abs(r.trafo_loading[n])

\* all(upper_limit >= x >= lower_limit for x in voltages)
check_voltage_limits_strict(voltages, upper_limit, lower_limit) ==
    \A n \in 1 .. Len(voltages) : upper_limit > voltages[n] /\ voltages[n] > lower_limit
check_voltage_limits(voltages, upper_limit, lower_limit) ==
    \A n \in 1 .. Len(voltages) : upper_limit >= voltages[n] /\ voltages[n] >= lower_limit

\* default scale factors of update_pqs / update_pqs_wl
scale_w == 1
scale_pv == 1

\* one generator row after update_pqs handled position i of the profile
UpdatedSgenRowAccumulating(n, flex_wt, flex_pv, profile, i) ==
    LET scale == IF i = LenT(n.sgen) - 1 THEN scale_w ELSE scale_pv
        p_scaled == n.sgen[i].p_mw * scale
    IN IF i \in flex_pv \/ i \in flex_wt
       THEN [n.sgen[i] EXCEPT !.p_mw = @ + profile[i + 1][1] * scale,
                              !.q_mvar = @ + profile[i + 1][2] * scale]
       ELSE [n.sgen[i] EXCEPT !.p_mw = p_scaled,
                              !.q_mvar = p_scaled * scale]
UpdatedSgenRow(n, flex_wt, flex_pv, profile, i) ==
    LET scale == IF i = LenT(n.sgen) - 1 THEN scale_w ELSE scale_pv
        p_scaled == n.sgen[i].p_mw * scale
    IN IF i \in flex_pv \/ i \in flex_wt
       THEN [n.sgen[i] EXCEPT !.p_mw = profile[i + 1][1] * scale,
                              !.q_mvar = profile[i + 1][2] * scale]
       ELSE [n.sgen[i] EXCEPT !.p_mw = p_scaled,
                              !.q_mvar = p_scaled * scale]

\* update_pqs with a non-empty profile of len(net.sgen) entries
update_pqs(n, flex_wt, flex_pv, profile) ==
    [n EXCEPT !.sgen = [i \in DOMAIN n.sgen |->
                          IF i < Len(profile)
                          THEN UpdatedSgenRow(n, flex_wt, flex_pv, profile, i)
                          ELSE n.sgen[i]]]

\* j = load_ind[i-len(net.sgen)] raises IndexError at the first profile position
\* behind the generators that load_ind has no entry for
update_pqs_wl_raises(n, profile, load_ind) ==
    Len(profile) - LenT(n.sgen) > Len(load_ind)

\* the profile positions that update_pqs_wl writes onto load j (the last one wins);
\* the loop stops at the position that raises
LoadPositions(n, profile, load_ind, j) ==
    {i \in LenT(n.sgen) .. Len(profile) - 1 :
        /\ i - LenT(n.sgen) + 1 <= Len(load_ind)
        /\ load_ind[i - LenT(n.sgen) + 1] = j}
Max(S) == CHOOSE x \in S : \A y \in S : y <= x

\* update_pqs_wl with a non-empty profile: generators first, then the flexible loads;
\* the network as the call leaves it, also when it raises
update_pqs_wl(n, flex_wt, flex_pv, profile, load_ind) ==
    [n EXCEPT
       !.sgen = [i \in DOMAIN n.sgen |->
                   IF i < Len(profile)
                   THEN UpdatedSgenRow(n, flex_wt, flex_pv, profile, i)
                   ELSE n.sgen[i]],
       !.load = [j \in DOMAIN n.load |->
                   IF LoadPositions(n, profile, load_ind, j) = {}
                   THEN n.load[j]
                   ELSE LET i == Max(LoadPositions(n, profile, load_ind, j))
                        IN [n.load[j] EXCEPT !.p_mw = profile[i + 1][1],
                                             !.q_mvar = profile[i + 1][2]]]]

-----------------------------------------------------------------------------
(* The power-flow solver pp.runpp: it fails, or it fills the result tables.  *)
(* Voltages are in hundredths of a per-unit, loadings in percent.            *)

RECURSIVE SumP(_, _), SumQ(_, _)
SumP(t, n) == IF n = 0 THEN 0 ELSE t[n - 1].p_mw + SumP(t, n - 1)
SumQ(t, n) == IF n = 0 THEN 0 ELSE t[n - 1].q_mvar + SumQ(t, n - 1)

\* what a converged solve can report for the buses, lines and transformers
SolverOutcomes ==
    {[vm_pu |-> <<95, 105>>, line_loading |-> <<100, 50>>, trafo_loading |-> <<100>>],
     [vm_pu |-> <<100, 100>>, line_loading |-> <<50, 50>>, trafo_loading |-> <<50>>],
     [vm_pu |-> <<94, 100>>, line_loading |-> <<50, 50>>, trafo_loading |-> <<50>>],
     [vm_pu |-> <<100, 106>>, line_loading |-> <<50, 50>>, trafo_loading |-> <<50>>],
     [vm_pu |-> <<100, 100>>, line_loading |-> <<50, 101>>, trafo_loading |-> <<50>>],
     [vm_pu |-> <<100, 100>>, line_loading |-> <<50, 50>>, trafo_loading |-> <<101>>]}

NoRes == [converged |-> FALSE]

\* the result tables after a converged solve of network n: the slack bus
\* balances the loads and the generators
Solved(n, o) ==
    [converged |-> TRUE, vm_pu |-> o.vm_pu, line_loading |-> o.line_loading,
     trafo_loading |-> o.trafo_loading,
     ext_p |-> SumP(n.load, LenT(n.load)) - SumP(n.sgen, LenT(n.sgen)),
     ext_q |-> SumQ(n.load, LenT(n.load)) - SumQ(n.sgen, LenT(n.sgen))]

-----------------------------------------------------------------------------
(* monte_carlo.py: the sweep *)

Buckets ==
    [x_flexible |-> x_flexible, y_flexible |-> y_flexible, prof_flexible |-> prof_flexible,
     x_non_flexible |-> x_non_flexible, y_non_flexible |-> y_non_flexible,
     prof_non_flexible |-> prof_non_flexible]

EmptyBuckets ==
    [x_flexible |-> << >>, y_flexible |-> << >>, prof_flexible |-> << >>,
     x_non_flexible |-> << >>, y_non_flexible |-> << >>, prof_non_flexible |-> << >>]

SetBuckets(b) ==
    /\ x_flexible' = b.x_flexible
    /\ y_flexible' = b.y_flexible
    /\ prof_flexible' = b.prof_flexible
    /\ x_non_flexible' = b.x_non_flexible
    /\ y_non_flexible' = b.y_non_flexible
    /\ prof_non_flexible' = b.prof_non_flexible

\* the body of the try block after pp.runpp returned: pq_value and the appends
ClassifyMisaligned(b, s, r, profile) ==
    IF /\ check_voltage_limits(r.vm_pu, s.max_volt, s.min_volt)
       /\ check_line_current_limits(r, s.max_curr)
       /\ check_trafo_current_limits(r, s.max_curr)
    THEN [b EXCEPT !.x_flexible = Append(@, r.ext_p),
                   !.y_flexible = Append(@, r.ext_q),
                   !.prof_flexible = <<profile>> \o @]
    ELSE [b EXCEPT !.x_non_flexible = Append(@, r.ext_p),
                   !.y_non_flexible = Append(@, r.ext_q),
                   !.prof_non_flexible = <<profile>> \o @]
Classify(b, s, r, profile) ==
    IF /\ check_voltage_limits(r.vm_pu, s.max_volt, s.min_volt)
       /\ check_line_current_limits(r, s.max_curr)
       /\ check_trafo_current_limits(r, s.max_curr)
    THEN [b EXCEPT !.x_flexible = Append(@, r.ext_p),
                   !.y_flexible = Append(@, r.ext_q),
                   !.prof_flexible = Append(@, profile)]
    ELSE [b EXCEPT !.x_non_flexible = Append(@, r.ext_p),
                   !.y_non_flexible = Append(@, r.ext_q),
                   !.prof_non_flexible = Append(@, profile)]

\* the except clause: the buckets after a failed solve
ExceptAsInfeasible(b, profile) ==
    [b EXCEPT !.x_non_flexible = Append(@, 0),
              !.y_non_flexible = Append(@, 0),
              !.prof_non_flexible = Append(@, profile)]
Except(b, profile) == b

\* the for loop: where the sweep stands after iteration kk of n
LoopNextWithoutUpdate(kk, n) ==
    IF kk < n THEN [k |-> kk + 1, spc |-> "runpp"] ELSE [k |-> kk + 1, spc |-> "done"]
LoopNext(kk, n) ==
    IF kk < n THEN [k |-> kk + 1, spc |-> "update"] ELSE [k |-> kk + 1, spc |-> "done"]

\* where the sweep stands after the except clause of iteration kk
AfterExceptBreak(kk, n) == [k |-> kk + 1, spc |-> "done"]
AfterExcept(kk, n) == LoopNext(kk, n)

\* all_pf_simulations: the choice of run_all_samples / run_all_samples_wl and
\* the initialisation of the buckets
AllPfSimulations ==
    /\ spc = "call"
    /\ IF settings.fsps \in {"DG only", "All", "Load only"}
       THEN /\ k' = 1
            /\ spc' = IF Len(pq_profiles) = 0 THEN "done" ELSE "update"
       ELSE /\ k' = k
            /\ spc' = "failed"
    /\ SetBuckets(EmptyBuckets)
    /\ UNCHANGED <<main_vars, sampler_vars, net, settings, pq_profiles, res, log, solver_calls>>

\* net = update_pqs(...) / update_pqs_wl(...) of the current profile; the call
\* stands before the try block, so an exception it raises ends the sweep
UpdatePqs ==
    /\ spc = "update"
    /\ IF settings.fsps = "DG only"
       THEN /\ net' = update_pqs(net, settings.fsp_wt, settings.fsp_pv, pq_profiles[k])
            /\ spc' = "runpp"
       ELSE /\ net' = update_pqs_wl(net, settings.fsp_wt, settings.fsp_pv, pq_profiles[k],
                                    settings.fsp_load)
            /\ spc' = IF update_pqs_wl_raises(net, pq_profiles[k], settings.fsp_load)
                      THEN "aborted" ELSE "runpp"
    /\ UNCHANGED <<main_vars, sampler_vars, settings, pq_profiles, k, res, x_flexible, y_flexible,
                   prof_flexible, x_non_flexible, y_non_flexible, prof_non_flexible,
                   log, solver_calls>>

\* pp.runpp(net) returns
RunPPConverged ==
    /\ spc = "runpp"
    /\ \E o \in SolverOutcomes :
          /\ res' = Solved(net, o)
          /\ solver_calls' = Append(solver_calls,
                                    [k |-> k, profile |-> pq_profiles[k], net |-> net,
                                     res |-> res'])
    /\ spc' = "classify"
    /\ UNCHANGED <<main_vars, sampler_vars, net, settings, pq_profiles, k, x_flexible, y_flexible,
                   prof_flexible, x_non_flexible, y_non_flexible, prof_non_flexible, log>>

\* pp.runpp(net) raises: the except clause prints the profile
RunPPFailed ==
    /\ spc = "runpp"
    /\ res' = NoRes
    /\ solver_calls' = Append(solver_calls,
                              [k |-> k, profile |-> pq_profiles[k], net |-> net,
                               res |-> NoRes])
    /\ log' = Append(log, pq_profiles[k])
    /\ SetBuckets(Except(Buckets, pq_profiles[k]))
    /\ \E nxt \in {AfterExcept(k, Len(pq_profiles))} :
          k' = nxt.k /\ spc' = nxt.spc
    /\ UNCHANGED <<main_vars, sampler_vars, net, settings, pq_profiles>>

\* the limit checks and the append to one bucket
ClassifyStep ==
    /\ spc = "classify"
    /\ SetBuckets(Classify(Buckets, settings, res, pq_profiles[k]))
    /\ \E nxt \in {LoopNext(k, Len(pq_profiles))} :
          k' = nxt.k /\ spc' = nxt.spc
    /\ UNCHANGED <<main_vars, sampler_vars, net, settings, pq_profiles, res, log, solver_calls>>

SweepNext ==
    \/ AllPfSimulations
    \/ UpdatePqs
    \/ RunPPConverged
    \/ RunPPFailed
    \/ ClassifyStep

\* the settings of a sweep: generators only (every generator an FSP); generators
\* with loads (generator 0 not an FSP, load 1 flexible); loads with an empty
\* flexible-load list (every load flexible); a tag outside the accepted ones
SweepSettings ==
    {[fsps |-> "DG only", fsp_pv |-> {0}, fsp_wt |-> {1}, fsp_load |-> <<1>>,
      max_curr |-> 100, max_volt |-> 105, min_volt |-> 95],
     [fsps |-> "All", fsp_pv |-> {1}, fsp_wt |-> {1}, fsp_load |-> <<1>>,
      max_curr |-> 100, max_volt |-> 105, min_volt |-> 95],
     [fsps |-> "Load only", fsp_pv |-> {0}, fsp_wt |-> {1}, fsp_load |-> << >>,
      max_curr |-> 100, max_volt |-> 105, min_volt |-> 95],
     [fsps |-> "DG Only", fsp_pv |-> {0}, fsp_wt |-> {1}, fsp_load |-> <<1>>,
      max_curr |-> 100, max_volt |-> 105, min_volt |-> 95]}

\* the profiles a batch is made of: one [P, Q] per generator, then per flexible load
\* (per load of the network when the flexible-load list is empty)
ProfilesFor(s) ==
    IF s.fsps \in {"DG only", "DG Only"}
    THEN {<<<<1, 0>>, <<2, 1>>>>, <<<<0, 1>>, <<1, -1>>>>}
    ELSE IF s.fsp_load = << >>
    THEN {<<<<1, 0>>, <<2, 0>>, <<1, 1>>, <<2, -1>>>>, <<<<1, 0>>, <<2, 0>>, <<0, 1>>, <<1, 0>>>>}
    ELSE {<<<<1, 0>>, <<2, 1>>, <<2, -1>>>>, <<<<0, 1>>, <<1, -1>>, <<1, 0>>>>}

BatchesFor(s) ==
    UNION {[1 .. n -> ProfilesFor(s)] : n \in 0 .. MaxBatch}

SamplerIdle ==
    /\ args = [no_samples |-> 0, distribution |-> "", keep_mp |-> FALSE,
               services |-> "", flexible_loads |-> << >>]
    /\ stream = 0
    /\ rng = -1
    /\ pc = "idle"
    /\ frame = EmptyFrame
    /\ random_p = << >>
    /\ last = NoCall
    /\ result = NoResult
    /\ calls = 0
    /\ first_result = NoResult

SweepInit ==
    /\ SamplerIdle
    /\ MainIdle
    /\ net = NetRated
    /\ settings \in SweepSettings
    /\ pq_profiles \in BatchesFor(settings)
    /\ k = 0
    /\ spc = "call"
    /\ res = NoRes
    /\ x_flexible = << >> /\ y_flexible = << >> /\ prof_flexible = << >>
    /\ x_non_flexible = << >> /\ y_non_flexible = << >> /\ prof_non_flexible = << >>
    /\ log = << >>
    /\ solver_calls = << >>

SpecSweep == SweepInit /\ [][SweepNext]_vars

-----------------------------------------------------------------------------
(* Properties of the sampler, stated over the latest sampling call: its raw  *)
(* array random_p and the batch last.out it returned                         *)

\* the raw row behind entry i1 of profile j1 of a batch with `width` entries per profile
RawRow(width, j1, i1) == random_p[width * (j1 - 1) + (i1 - 1)]

\* the network load behind entry i1 of a load profile
LoadOf(i1) == IF args.flexible_loads = << >> THEN i1 - 1 ELSE args.flexible_loads[i1]

\* p^2 + q^2 <= sn_mva^2 for one [p, q] entry; a NaN satisfies no comparison
InEnvelope(entry, sn) ==
    /\ ~entry[2].nan
    /\ Sq(entry[1]) + entry[2].sq <= Sq(sn * Scale)

\* C5: every generator entry of every profile the generator sampler produces, in
\* both projection modes, satisfies p^2 + q^2 <= sn_mva^2
C5_GeneratorEnvelope ==
    last.kind = "dg" =>
        \A j1 \in 1 .. Len(last.out) : \A i1 \in 1 .. Len(last.out[j1]) :
            InEnvelope(last.out[j1][i1], net.sgen[i1 - 1].sn_mva)

\* C6: every load entry of every profile sample_new_load_point produces satisfies
\* p^2 + q^2 <= sn_mva^2 of its load, for any raw values and any load data
C6_LoadEnvelope ==
    last.kind = "load" =>
        \A j1 \in 1 .. Len(last.out) : \A i1 \in 1 .. Len(last.out[j1]) :
            InEnvelope(last.out[j1][i1], net.load[LoadOf(i1)].sn_mva)

\* C7: for services = 'All' the returned batch has exactly no_samples profiles
C7_BatchSizeConserved ==
    (pc = "done" /\ args.services = "All") =>
        Len(result.profiles) = args.no_samples

\* the clamped fraction min(max(r, 0), 1), in units of 1/Scale
Clamp01(r) == IF r < 0 THEN 0 ELSE IF r > Scale THEN Scale ELSE r

\* the capacity the clamp of entry i1 uses: sn_mva of the generator, p_mw of the load
CapOf(i1) ==
    IF last.kind = "dg" THEN net.sgen[i1 - 1].sn_mva ELSE net.load[LoadOf(i1)].p_mw

ClampingCall == (last.kind = "dg" /\ ~args.keep_mp) \/ last.kind = "load"

\* C8: in the clamping projections the active power for a raw fraction r is
\* cap*min(max(r,0),1); raw -1, 0, 0.5, 1, 2 give 0, 0, 0.5*cap, cap, cap
C8_ClampCorrect ==
    ClampingCall =>
        \A j1 \in 1 .. Len(last.out) : \A i1 \in 1 .. Len(last.out[j1]) :
            LET r == RawRow(Len(last.out[j1]), j1, i1)[0]
                p == last.out[j1][i1][1]
                cap == CapOf(i1)
            IN /\ p = cap * Clamp01(r)
               /\ r = -Scale => p = 0
               /\ r = 0 => p = 0
               /\ r = Scale \div 2 => p = cap * (Scale \div 2)
               /\ r = Scale => p = cap * Scale
               /\ r = 2 * Scale => p = cap * Scale

\* a generator batch of the clamping mode that holds the raw values -1, 0, 1 and 2,
\* clamped to 0, 0, the rating and the rating
C8_Witness ==
    /\ last.kind = "dg" /\ ~args.keep_mp
    /\ \A r \in {-Scale, 0, Scale, 2 * Scale} :
          \E j1 \in 1 .. Len(last.out) : \E i1 \in 1 .. Len(last.out[j1]) :
              /\ RawRow(Len(last.out[j1]), j1, i1)[0] = r
              /\ last.out[j1][i1][1] = (IF r <= 0 THEN 0 ELSE net.sgen[i1 - 1].sn_mva * Scale)

\* C9: in keep_mp = true sampling, for |raw| <= 1, the reactive power of iteration
\* j is (-1)^j * sqrt(sn_mva^2 - p_new^2); with the same raw value, iterations j and
\* j+1 give equal magnitudes and opposite signs
C9_SignAlternation ==
    (last.kind = "dg" /\ args.keep_mp) =>
        \A j1 \in 1 .. Len(last.out) : \A i1 \in 1 .. Len(last.out[j1]) :
            LET width == Len(last.out[j1])
                r == RawRow(width, j1, i1)[0]
                e == last.out[j1][i1]
                sn == net.sgen[i1 - 1].sn_mva
            IN (r >= -Scale /\ r <= Scale) =>
                 /\ ~e[2].nan
                 /\ e[2].sq = Sq(sn * Scale) - Sq(e[1])
                 /\ e[2].sgn = (IF (j1 - 1) % 2 = 0 THEN 1 ELSE -1)
                 /\ (j1 < Len(last.out) /\ RawRow(width, j1 + 1, i1)[0] = r) =>
                        /\ last.out[j1 + 1][i1][2].sq = e[2].sq
                        /\ last.out[j1 + 1][i1][2].sgn = -e[2].sgn

\* two consecutive iterations with the same raw value inside (-1, 1): a non-zero
\* reactive power, positive at the even iteration and negative at the odd one
C9_Witness ==
    /\ last.kind = "dg" /\ args.keep_mp
    /\ \E j1 \in 1 .. Len(last.out) - 1 : \E i1 \in 1 .. Len(last.out[j1]) :
          /\ (j1 - 1) % 2 = 0
          /\ RawRow(Len(last.out[j1]), j1, i1)[0] \in 1 .. Scale - 1
          /\ RawRow(Len(last.out[j1]), j1 + 1, i1)[0] = RawRow(Len(last.out[j1]), j1, i1)[0]
          /\ last.out[j1][i1][2].sq > 0
          /\ last.out[j1][i1][2].sgn = 1
          /\ last.out[j1 + 1][i1][2].sgn = -1

\* C10: a second invocation of profile_creation with the same arguments and the
\* same network returns the batch the first one returned, entry for entry
C10_Deterministic ==
    (calls = 2 /\ pc \in {"done", "failed"}) => result = first_result

\* both invocations returned a batch drawn from the stream, whose profiles differ
C10_Witness ==
    /\ calls = 2 /\ pc = "done"
    /\ result.returned /\ first_result.returned
    /\ args.distribution \in {"Normal", "Uniform", "Normal_Limits_Oriented"}
    /\ \E j1, j2 \in 1 .. Len(result.profiles) : result.profiles[j1] # result.profiles[j2]

-----------------------------------------------------------------------------
(* Properties of the sweep *)

\* how often profile p occurs in the list s
Count(s, p) == Cardinality({n \in 1 .. Len(s) : s[n] = p})

\* C1: after a sweep, feasible + infeasible + failed solves = length of the batch,
\* for the P lists and the profile lists, and every profile of the batch is in
\* exactly one of the feasible bucket, the infeasible bucket and the failed ones
C1_ClassificationComplete ==
    spc = "done" =>
        /\ Len(x_flexible) + Len(x_non_flexible) + Len(log) = Len(pq_profiles)
        /\ Len(prof_flexible) + Len(prof_non_flexible) + Len(log) = Len(pq_profiles)
        /\ \A p \in ProfilesFor(settings) :
              Count(prof_flexible, p) + Count(prof_non_flexible, p) + Count(log, p)
                  = Count(pq_profiles, p)

\* a finished sweep with a feasible profile, an infeasible one and a failed solve
C1_Witness ==
    /\ spc = "done"
    /\ Len(x_flexible) > 0 /\ Len(x_non_flexible) > 0 /\ Len(log) > 0

\* the three limits of the specification, all bounds inclusive
WithinLimits(r, s) ==
    /\ \A n \in 1 .. Len(r.vm_pu) : s.min_volt <= r.vm_pu[n] /\ r.vm_pu[n] <= s.max_volt
    /\ \A n \in 1 .. Len(r.line_loading) : r.line_loading[n] <= s.max_curr
    /\ \A n \in 1 .. Len(r.trafo_loading) : r.trafo_loading[n] <= s.max_curr

\* C2: a profile whose solve succeeded is appended to the feasible bucket iff all
\* voltages are in [min_volt, max_volt] and all line and transformer loadings are
\* <= max_curr; otherwise it is appended to the infeasible bucket
C2_FeasibleIffWithinLimits ==
    [][spc = "classify" =>
          IF WithinLimits(res, settings)
          THEN /\ prof_flexible' = Append(prof_flexible, pq_profiles[k])
               /\ x_flexible' = Append(x_flexible, res.ext_p)
               /\ y_flexible' = Append(y_flexible, res.ext_q)
               /\ UNCHANGED <<x_non_flexible, y_non_flexible, prof_non_flexible>>
          ELSE /\ prof_non_flexible' = Append(prof_non_flexible, pq_profiles[k])
               /\ x_non_flexible' = Append(x_non_flexible, res.ext_p)
               /\ y_non_flexible' = Append(y_non_flexible, res.ext_q)
               /\ UNCHANGED <<x_flexible, y_flexible, prof_flexible>>]_vars

\* a result that sits exactly on all three limits was put into the feasible bucket,
\* and a result beyond a limit into the infeasible bucket
C2_Witness ==
    /\ spc = "done"
    /\ Len(solver_calls) = 2
    /\ solver_calls[1].res.converged /\ solver_calls[2].res.converged
    /\ solver_calls[1].res.vm_pu = <<settings.min_volt, settings.max_volt>>
    /\ solver_calls[1].res.line_loading[1] = settings.max_curr
    /\ solver_calls[1].res.trafo_loading[1] = settings.max_curr
    /\ solver_calls[2].res.trafo_loading[1] > settings.max_curr
    /\ prof_flexible = <<solver_calls[1].profile>>
    /\ prof_non_flexible = <<solver_calls[2].profile>>

\* C3: a failed solve leaves the P, Q and profile lists of both buckets unchanged
\* and the sweep goes on with the next profile: every profile of the batch is solved
C3_FailureSkipsAndContinues ==
    /\ [][(spc = "runpp" /\ log' # log) =>
             /\ Buckets' = Buckets
             /\ k' = k + 1
             /\ spc' = (IF k < Len(pq_profiles) THEN "update" ELSE "done")]_vars
    /\ [](spc = "done" =>
             /\ Len(solver_calls) = Len(pq_profiles)
             /\ \A n \in 1 .. Len(solver_calls) : solver_calls[n].k = n)

\* a finished sweep in which a solve failed and a later profile was classified
C3_Witness ==
    /\ spc = "done"
    /\ \E n, m \in 1 .. Len(solver_calls) :
          /\ n < m
          /\ ~solver_calls[n].res.converged
          /\ solver_calls[m].res.converged
    /\ Len(log) = 1
    /\ Len(prof_flexible) + Len(prof_non_flexible) = Len(pq_profiles) - 1

\* the solves whose result has been put into a bucket
ClassifiedCalls ==
    IF spc = "classify" THEN SubSeq(solver_calls, 1, Len(solver_calls) - 1) ELSE solver_calls

\* C4: at every point of the sweep, in each bucket the P list, the Q list and the
\* profile list have the same length, entry n of the P and Q lists is the slack
\* result of the solve of entry n of the profile list, in batch order
C4_BucketsAligned ==
    LET IsFeasible(h) == h.res.converged /\ WithinLimits(h.res, settings)
        IsInfeasible(h) == h.res.converged /\ ~WithinLimits(h.res, settings)
        f == SelectSeq(ClassifiedCalls, IsFeasible)
        nf == SelectSeq(ClassifiedCalls, IsInfeasible)
    IN /\ \A n, m \in 1 .. Len(solver_calls) : n < m => solver_calls[n].k < solver_calls[m].k
       /\ \A n \in 1 .. Len(solver_calls) :
             solver_calls[n].profile = pq_profiles[solver_calls[n].k]
       /\ Len(x_flexible) = Len(f) /\ Len(y_flexible) = Len(f) /\ Len(prof_flexible) = Len(f)
       /\ Len(x_non_flexible) = Len(nf) /\ Len(y_non_flexible) = Len(nf)
       /\ Len(prof_non_flexible) = Len(nf)
       /\ \A n \in 1 .. Len(f) :
             /\ x_flexible[n] = f[n].res.ext_p
             /\ y_flexible[n] = f[n].res.ext_q
             /\ prof_flexible[n] = f[n].profile
       /\ \A n \in 1 .. Len(nf) :
             /\ x_non_flexible[n] = nf[n].res.ext_p
             /\ y_non_flexible[n] = nf[n].res.ext_q
             /\ prof_non_flexible[n] = nf[n].profile

\* a bucket holding two different profiles with different slack results, while the
\* other bucket is not empty
C4_Witness ==
    /\ Len(prof_flexible) >= 2
    /\ prof_flexible[1] # prof_flexible[2]
    /\ x_flexible[1] # x_flexible[2]
    /\ Len(prof_non_flexible) >= 1

-----------------------------------------------------------------------------
(* The sampler and the sweep side by side: profile_creation started on its    *)
(* arguments, or all_pf_simulations started on a batch                        *)

EngineInit == Init \/ SweepInit

EngineNext == Next \/ SweepNext

SpecEngine == EngineInit /\ [][EngineNext]_vars

-----------------------------------------------------------------------------
(* main.py: the run from the creation of the batch to the call of the sweep  *)

\* the settings SettingReader.tester lets through: any integer no_samples, the three
\* distributions, the three FSP tags
MainArgsSet ==
    [no_samples : 0 .. MaxSamples,
     distribution : {"Normal", "Uniform", "Normal_Limits_Oriented"},
     keep_mp : BOOLEAN,
     services : {"DG only", "All", "Load only"},
     flexible_loads : {<< >>, <<1>>}]

\* the run stands before `if settings.no_samples >= 2:`
MainInit ==
    /\ args \in MainArgsSet
    /\ net \in Nets
    /\ stream \in Streams
    /\ rng = -1
    /\ pc = "idle"
    /\ frame = EmptyFrame
    /\ random_p = << >>
    /\ last = NoCall
    /\ result = NoResult
    /\ calls = 0
    /\ first_result = NoResult
    /\ SweepIdle
    /\ mpc = "create"
    /\ mc_sim \in BOOLEAN

\* if settings.no_samples >= 2: pq_profiles, dur_samples = profile_creation(...)
MainCreate ==
    /\ mpc = "create"
    /\ IF args.no_samples >= 2
       THEN pc' = "entry" /\ mpc' = "sampling"
       ELSE pc' = pc /\ mpc' = "report"
    /\ UNCHANGED <<args, net, stream, rng, frame, random_p, last, result, calls,
                   first_result, sweep_vars, mc_sim>>

\* profile_creation returns and the names pq_profiles, dur_samples are bound, or it
\* raises and the run ends
MainReturn ==
    /\ mpc = "sampling"
    /\ pc \in {"done", "failed"}
    /\ mpc' = IF pc = "done" THEN "report" ELSE "crashed"
    /\ UNCHANGED <<sampler_vars, net, sweep_vars, mc_sim>>

\* the report of the altered network, then `if settings.mc_sim:`
MainReport ==
    /\ mpc = "report"
    /\ mpc' = IF mc_sim THEN "mc" ELSE "end"
    /\ UNCHANGED <<sampler_vars, net, sweep_vars, mc_sim>>

\* all_pf_simulations(settings, net, pq_profiles): the name pq_profiles is looked up;
\* unbound, it raises NameError
MainSweep ==
    /\ mpc = "mc"
    /\ mpc' = IF result.returned THEN "sweep" ELSE "crashed"
    /\ UNCHANGED <<sampler_vars, net, sweep_vars, mc_sim>>

MainNext ==
    \/ MainCreate
    \/ Enter
    \/ DgOnly
    \/ All1
    \/ All2
    \/ All3
    \/ All4
    \/ Load1
    \/ Load2
    \/ MainReturn
    \/ MainReport
    \/ MainSweep

SpecMain == MainInit /\ [][MainNext]_vars

-----------------------------------------------------------------------------
(* Failure handling *)

\* the FSP-category tags of the specification
AcceptedServices == {"DG only", "Load only", "All"}

\* C11: with a distribution tag other than 'Normal', 'Uniform',
\* 'Normal_Limits_Oriented' and 'No_change', profile_creation fails and returns no
\* batch, for every services value, and no sub-batch has been sampled when it fails
C11_UnknownDistributionFailsFirst ==
    (calls >= 1 /\ args.distribution \notin Distributions) =>
        /\ pc # "done"
        /\ ~result.returned
        /\ pc = "failed" => last = NoCall

\* C12: with an FSP-category tag other than 'DG only', 'Load only' and 'All',
\* profile_creation fails before any raw value is drawn, and all_pf_simulations
\* fails before the network is modified and before any power-flow solve
C12_UnknownServicesFailsFirst ==
    /\ (calls >= 1 /\ args.services \notin AcceptedServices) =>
          /\ pc \in {"failed", "entry"}
          /\ rng = 0
          /\ random_p = << >>
          /\ last = NoCall
          /\ ~result.returned /\ ~first_result.returned
    /\ (spc \notin {"idle", "call"} /\ settings.fsps \notin AcceptedServices) =>
          /\ spc = "failed"
          /\ net = NetRated
          /\ solver_calls = << >>
          /\ Buckets = EmptyBuckets

\* profile_creation failed on the tag 'DG Only' with a distribution that would
\* have drawn from the generator
C12_Witness ==
    /\ pc = "failed" /\ calls = 1
    /\ args.services = "DG Only"
    /\ args.distribution = "Uniform"
    /\ rng = 0

\* C13: in keep_mp = true generator sampling a raw value with |sn_mva*raw| > sn_mva
\* makes sample_new_point fail: a batch it returns was built from raw values in
\* [-1, 1] only and holds no undefined reactive power
C13_OutOfRangeIsFatal ==
    (last.kind = "dg" /\ args.keep_mp) =>
        \A j1 \in 1 .. Len(last.out) : \A i1 \in 1 .. Len(last.out[j1]) :
            /\ Abs(RawRow(Len(last.out[j1]), j1, i1)[0]) <= Scale
            /\ ~last.out[j1][i1][2].nan

\* C14: in load sampling an undefined reactive budget (sn_mva^2 < p_new^2) makes the
\* sample fail: in a batch the load sampler returns every q_max was defined and no
\* reactive power is undefined, with an explicit flexible-load list and with none
C14_UndefinedBudgetIsFatal ==
    last.kind = "load" =>
        \A j1 \in 1 .. Len(last.out) : \A i1 \in 1 .. Len(last.out[j1]) :
            /\ Sq(last.out[j1][i1][1]) <= Sq(net.load[LoadOf(i1)].sn_mva * Scale)
            /\ ~last.out[j1][i1][2].nan

\* C15: for services = 'Load only' every generator entry of every returned profile
\* is the generator's current setpoint (p_mw, q_mvar), for either value of keep_mp
C15_LoadOnlyHoldsSetpoint ==
    (pc = "done" /\ args.services = "Load only") =>
        \A j1 \in 1 .. Len(result.profiles) : \A i1 \in 1 .. LenT(net.sgen) :
            LET e == result.profiles[j1][i1]
                g == net.sgen[i1 - 1]
            IN /\ e[1] = g.p_mw * Scale
               /\ ~e[2].nan
               /\ e[2].sq = Sq(g.q_mvar * Scale)
               /\ g.q_mvar # 0 => e[2].sgn = (IF g.q_mvar < 0 THEN -1 ELSE 1)

-----------------------------------------------------------------------------
(* Properties of the sweep: progress and the write of a profile *)

\* C16: the sweep solves every profile of the batch exactly once, in batch order,
\* never stops before the last profile, and ends completed with every profile solved
C16_SweepRunsToCompletion ==
    settings.fsps \in AcceptedServices =>
        /\ spc # "aborted"
        /\ \A n \in 1 .. Len(solver_calls) : solver_calls[n].k = n
        /\ Len(solver_calls) <= Len(pq_profiles)
        /\ spc = "done" => Len(solver_calls) = Len(pq_profiles)

\* the network load that position i1 of a profile was sampled from: the entry of the
\* flexible-load list, or the load of the same rank when the list is empty
SampledLoad(i1) ==
    IF settings.fsp_load = << >>
    THEN i1 - LenT(net.sgen) - 1
    ELSE settings.fsp_load[i1 - LenT(net.sgen)]

\* C17: update_pqs_wl never fails on a profile of len(sgen) generator entries followed
\* by one entry per flexible load (per load when the list is empty); afterwards each
\* FSP generator holds its entry and each load holds the entry sampled from it
C17_LoadEntriesReachTheirLoad ==
    (settings.fsps \in {"Load only", "All"} /\ spc \in {"runpp", "aborted"}) =>
        /\ spc # "aborted"
        /\ \A i1 \in 1 .. LenT(net.sgen) :
              (i1 - 1) \in settings.fsp_pv \cup settings.fsp_wt =>
                  /\ net.sgen[i1 - 1].p_mw = pq_profiles[k][i1][1]
                  /\ net.sgen[i1 - 1].q_mvar = pq_profiles[k][i1][2]
        /\ \A i1 \in LenT(net.sgen) + 1 .. Len(pq_profiles[k]) :
              /\ net.load[SampledLoad(i1)].p_mw = pq_profiles[k][i1][1]
              /\ net.load[SampledLoad(i1)].q_mvar = pq_profiles[k][i1][2]

-----------------------------------------------------------------------------
(* Properties of profile_creation: the network and the composition of a batch *)

\* C18: profile_creation and the sampler functions it calls leave every generator's
\* and every load's p_mw, q_mvar and sn_mva as they were, at every step
C18_NetworkUntouched == [][net' = net]_vars

\* a batch was returned for services = 'All' (every sampler function ran) and the
\* network is the one profile_creation was given
C18_Witness ==
    /\ pc = "done" /\ result.returned
    /\ args.services = "All" /\ args.distribution = "Uniform"
    /\ net = NetRated

\* the generator entries and the load entries of profile j of a batch
GenPart(P, j) == SubSeq(P[j], 1, LenT(net.sgen))
LoadPart(P, j) == SubSeq(P[j], LenT(net.sgen) + 1, Len(P[j]))

\* a generator entry under raw value 1: the rating, and a reactive power of zero
FrozenGen(P, j) ==
    \A i1 \in 1 .. LenT(net.sgen) :
        /\ P[j][i1][1] = net.sgen[i1 - 1].sn_mva * Scale
        /\ ~P[j][i1][2].nan /\ P[j][i1][2].sq = 0

\* a load entry under raw value 1: the load's own active power
FrozenLoad(P, j) ==
    \A i1 \in 1 .. Len(LoadPart(P, j)) :
        LoadPart(P, j)[i1][1] = net.load[LoadOf(i1)].p_mw * Scale

\* C19 as stated: for services = 'All' the batch is N/2 profiles drawn in both
\* categories, then N/8 profiles whose load entries are all frozen, then 3N/8
\* profiles whose generator entries are all frozen
C19_GeneratorsThenLoads ==
    (pc = "done" /\ args.services = "All") =>
        LET P == result.profiles
            h == args.no_samples \div 2
            e == args.no_samples \div 8
            t == (3 * args.no_samples) \div 8
        IN /\ Len(P) = h + e + t
           /\ \A j \in h + 1 .. h + e : FrozenLoad(P, j)
           /\ \A j \in h + e + 1 .. h + e + t : FrozenGen(P, j)

\* C19 amended: the batch is int(N/2) profiles drawn in both categories at the
\* requested distribution, then int(N/8) profiles with frozen generator entries and
\* the load entries of the first int(N/8) profiles, then int(3N/8) profiles with the
\* generator entries of the first int(3N/8) profiles and frozen load entries
C19_LoadsThenGenerators ==
    /\ (pc = "all_2" /\ calls >= 1) =>
          /\ last.kind = "dg" /\ last.distribution = args.distribution
          /\ last.no_samples = args.no_samples \div 2
          /\ frame.pq_profiles = last.out
    /\ (pc = "all_3" /\ calls >= 1) =>
          /\ last.kind = "load" /\ last.distribution = args.distribution
          /\ last.no_samples = args.no_samples \div 2
          /\ Len(frame.profiles) = args.no_samples \div 2
          /\ \A j \in 1 .. Len(frame.profiles) :
                frame.profiles[j] = frame.pq_profiles[j] \o last.out[j]
    /\ (pc = "done" /\ args.services = "All") =>
          LET P == result.profiles
              h == args.no_samples \div 2
              e == args.no_samples \div 8
              t == (3 * args.no_samples) \div 8
          IN /\ Len(P) = h + e + t
             /\ \A j \in 1 .. h : GenPart(P, j) = frame.pq_profiles[j]
             /\ \A j \in h + 1 .. h + e :
                   /\ FrozenGen(P, j)
                   /\ LoadPart(P, j) = LoadPart(P, j - h)
             /\ \A j \in h + e + 1 .. h + e + t :
                   /\ GenPart(P, j) = GenPart(P, j - h - e)
                   /\ FrozenLoad(P, j)
                   /\ LoadPart(P, j) = LoadPart(P, h + e + 1)

\* a returned blend whose first profiles differ in their generator entries and in
\* their load entries, so that the reuse and the frozen entries can be told apart
C19_Witness ==
    /\ pc = "done" /\ args.services = "All"
    /\ LET P == result.profiles
           h == args.no_samples \div 2
           e == args.no_samples \div 8
       IN /\ e >= 1
          /\ GenPart(P, 1) # GenPart(P, 2)
          /\ LoadPart(P, 1) # LoadPart(P, h)
          /\ ~FrozenLoad(P, h + 1)
          /\ ~FrozenGen(P, h + e + 1)

-----------------------------------------------------------------------------
(* Properties of sample_from_rng *)

\* the number of FSPs of the latest sampling call, and its arguments n and dof
WidthOfLast ==
    IF last.kind = "dg" THEN LenT(net.sgen)
    ELSE IF args.flexible_loads = << >> THEN LenT(net.load)
    ELSE Len(args.flexible_loads)
DofOfLast == IF last.kind = "dg" /\ args.keep_mp THEN 1 ELSE 2

\* C20: sample_from_rng returns exactly n rows of dof columns for every supported
\* distribution; for 'Normal_Limits_Oriented' with dof = 2 the four quarters have
\* floor(n/4), floor(n/4), floor(n/4) and n - 3*floor(n/4) rows
C20_RawArrayShape ==
    last.kind # "none" =>
        /\ DOMAIN random_p = 0 .. last.no_samples * WidthOfLast - 1
        /\ \A r \in DOMAIN random_p : DOMAIN random_p[r] = 0 .. DofOfLast - 1

-----------------------------------------------------------------------------
(* Further properties of the projections and of update_pqs / update_pqs_wl *)

\* C21: in keep_mp = false generator sampling the reactive power of iteration j has
\* the sign (-1)^j (Q >= 0 on even, Q <= 0 on odd iterations), for negative raw
\* values too, and the magnitude min(|sn_mva*raw_q|, sqrt(sn_mva^2 - p_new^2))
C21_NonMpSignByParity ==
    (last.kind = "dg" /\ ~args.keep_mp) =>
        \A j1 \in 1 .. Len(last.out) : \A i1 \in 1 .. Len(last.out[j1]) :
            LET row == RawRow(Len(last.out[j1]), j1, i1)
                sn == net.sgen[i1 - 1].sn_mva
                e == last.out[j1][i1]
                budget == Sq(sn * Scale) - Sq(e[1])
            IN /\ ~e[2].nan
               /\ e[2].sq = (IF Sq(sn * row[1]) <= budget THEN Sq(sn * row[1]) ELSE budget)
               /\ e[2].sq # 0 => e[2].sgn = (IF (j1 - 1) % 2 = 0 THEN 1 ELSE -1)

\* the loads behind the flexible-load list of the sweep (every load when it is empty)
FlexibleLoads ==
    IF settings.fsp_load = << >> THEN DOMAIN net.load
    ELSE {settings.fsp_load[n] : n \in 1 .. Len(settings.fsp_load)}

\* C25: with the default scale factors a sweep leaves p_mw and q_mvar of every
\* generator outside flex_pv and flex_wt and of every load outside the flexible-load
\* list as they were when the sweep started
C25_NonFspUntouched ==
    spc \notin {"idle", "call"} =>
        /\ \A i \in DOMAIN net.sgen :
              i \notin (settings.fsp_pv \cup settings.fsp_wt) => net.sgen[i] = NetRated.sgen[i]
        /\ \A j \in DOMAIN net.load :
              j \notin FlexibleLoads => net.load[j] = NetRated.load[j]

\* C30: profile_creation called with the default of services takes the
\* generators-only branch and returns no_samples generator profiles; the default
\* is one of the accepted tags
C30_DefaultIsGeneratorsOnly ==
    (args.services = DefaultServices /\ pc \in {"done", "failed"}) =>
        /\ DefaultServices \in AcceptedServices
        /\ pc = "done"
        /\ last.kind = "dg"
        /\ result.returned
        /\ Len(result.profiles) = args.no_samples

SamplingPcs == {"dg_only", "all_1", "all_2", "all_3", "all_4", "load_1", "load_2"}

\* C24: within one profile_creation call the generator is seeded once, at entry, and
\* never again: every sampling call draws its raw array from the stream position where
\* the previous call stopped and moves the position by the number of values it drew,
\* so the segments of two sampling calls never overlap
C24_SeededOnceStreamContinues ==
    [][/\ pc = "entry" /\ pc' # "entry" => rng' = 0
       /\ pc # "entry" => rng >= 0 /\ rng' >= rng
       /\ (pc \in SamplingPcs /\ last' # last) =>
             /\ random_p' = sample_from_rng(last'.distribution,
                                            last'.no_samples * WidthOfLast',
                                            DofOfLast', rng).random_p
             /\ rng' = rng + (IF last'.distribution = "No_change" THEN 0
                              ELSE LenT(random_p') * DofOfLast')
             /\ last'.distribution # "No_change" => rng' > rng]_vars

\* 'All': the load call has drawn after the generator call, from a position past the
\* seed, and its raw values are not the ones found at the start of the stream
C24_Witness ==
    /\ pc = "all_3"
    /\ last.kind = "load" /\ last.distribution # "No_change"
    /\ rng > LenT(random_p) * 2
    /\ random_p # sample_from_rng(last.distribution, last.no_samples * WidthOfLast,
                                  2, 0).random_p

\* the output of the last sampling call: one entry per generator in index order, or
\* one entry per flexible load in list order (per network load when the list is empty)
LastCallLayout ==
    \A j1 \in 1 .. Len(last.out) :
        /\ Len(last.out[j1]) = WidthOfLast
        /\ \A i1 \in 1 .. WidthOfLast :
              LET row == RawRow(WidthOfLast, j1, i1)
              IN last.out[j1][i1][1] =
                    (IF last.kind = "load" THEN ClampP(net.load[LoadOf(i1)].p_mw, row[0])
                     ELSE IF args.keep_mp THEN net.sgen[i1 - 1].sn_mva * row[0]
                     ELSE ClampP(net.sgen[i1 - 1].sn_mva, row[0]))

\* row j of a followed by row j of b, for as many rows as both have
SideBySide(a, b) ==
    [j1 \in 1 .. (IF Len(a) < Len(b) THEN Len(a) ELSE Len(b)) |-> a[j1] \o b[j1]]

\* C27: every profile of a returned batch holds len(sgen) generator entries in index
\* order, followed for 'Load only' and 'All' by one entry per flexible load in list
\* order (per network load when the list is empty), and by nothing for 'DG only'
C27_ProfileLayout ==
    [][/\ LastCallLayout'
       /\ (pc' \in {"all_2", "load_2"}) => (last'.kind = "dg" /\ frame'.pq_profiles = last'.out)
       /\ (pc' \in {"all_3", "all_4"}) => frame'.pq_profiles = frame.pq_profiles
       /\ (pc = "dg_only" /\ pc' = "done") =>
             (last'.kind = "dg" /\ result'.profiles = last'.out)
       /\ (pc \in {"all_2", "load_2"} /\ pc' # "failed") =>
             /\ last'.kind = "load" /\ frame'.pq_load_profiles = last'.out
             /\ frame'.profiles = SideBySide(frame.pq_profiles, last'.out)
       /\ (pc = "all_3" /\ pc' = "all_4") =>
             /\ last'.kind = "dg" /\ frame'.pq_load_profiles = frame.pq_load_profiles
             /\ frame'.profiles =
                   frame.profiles \o SideBySide(last'.out, frame.pq_load_profiles)
       /\ (pc = "all_4" /\ pc' = "done") =>
             /\ last'.kind = "load"
             /\ frame'.profiles = frame.profiles \o SideBySide(frame.pq_profiles, last'.out)
       /\ (pc # "done" /\ pc' = "done") =>
             /\ result'.returned
             /\ args.services # "DG only" => result'.profiles = frame'.profiles
             /\ \A j1 \in 1 .. Len(result'.profiles) :
                   Len(result'.profiles[j1]) =
                      LenT(net.sgen)
                      + (IF args.services = "DG only" THEN 0
                         ELSE IF args.flexible_loads = << >> THEN LenT(net.load)
                         ELSE Len(args.flexible_loads))]_vars

\* an 'All' batch over two generators and the flexible loads 1, 0 with all three
\* sub-batches, whose first profile has four pairwise different entries
C27_Witness ==
    /\ pc = "done" /\ result.returned
    /\ args.services = "All" /\ args.flexible_loads = <<1, 0>> /\ net = NetRated
    /\ Len(result.profiles) = args.no_samples
    /\ Len(result.profiles[1]) = 4
    /\ \A a, b \in 1 .. 4 : a # b => result.profiles[1][a] # result.profiles[1][b]

\* C28: a sampling call under 'No_change' leaves the stream where it was, so the calls
\* after it draw what they would have drawn without it: the load call of 'Load only'
\* starts at the seed position and gets the first values of the stream
C28_NoChangeDrawsNothing ==
    [][/\ (pc \in SamplingPcs /\ last' # last /\ last'.distribution = "No_change") =>
             rng' = rng
       /\ pc' = "load_2" => rng' = 0
       /\ (pc = "load_2" /\ pc' = "done") =>
             \A r \in DOMAIN random_p' : \A c \in DOMAIN random_p'[r] :
                random_p'[r][c] =
                   (CASE args.distribution = "Normal" ->
                           NormalAt(r * 2 + c, Scale, Scale \div 50)
                      [] args.distribution = "Uniform" -> UniformAt(r * 2 + c)
                      [] args.distribution = "Normal_Limits_Oriented" ->
                           LimitsOrientedArr(0, last'.no_samples * WidthOfLast')[r][c]
                      [] OTHER -> Scale)]_vars

\* 'Load only' after an odd number of generator entries under 'No_change': the load
\* call got the start of the stream, which differs from the values further on
C28_Witness ==
    /\ pc = "done" /\ args.services = "Load only" /\ args.distribution = "Uniform"
    /\ (args.no_samples * LenT(net.sgen)) % 2 = 1 /\ args.keep_mp
    /\ random_p[0][0] = UniformAt(0)
    /\ random_p[0][0] # UniformAt(args.no_samples * LenT(net.sgen))

\* the network the sweep started from
InitialNet == NetRated

\* the setpoints of profile `profile` written onto the initial network: the entries of
\* the FSP generators and of the listed loads, the initial values everywhere else
\* (q_mvar of a generator that is no FSP is its initial p_mw, see C25)
SetpointsOf(profile) ==
    [sgen |-> [i \in DOMAIN InitialNet.sgen |->
                 IF i \in settings.fsp_pv \cup settings.fsp_wt
                 THEN [sn_mva |-> InitialNet.sgen[i].sn_mva,
                       p_mw |-> profile[i + 1][1], q_mvar |-> profile[i + 1][2]]
                 ELSE [sn_mva |-> InitialNet.sgen[i].sn_mva,
                       p_mw |-> InitialNet.sgen[i].p_mw,
                       q_mvar |-> InitialNet.sgen[i].p_mw]],
     load |-> [j \in DOMAIN InitialNet.load |->
                 IF settings.fsps # "DG only"
                    /\ \E m \in 1 .. Len(settings.fsp_load) : settings.fsp_load[m] = j
                 THEN LET m == CHOOSE m \in 1 .. Len(settings.fsp_load) :
                                   settings.fsp_load[m] = j
                      IN [sn_mva |-> InitialNet.load[j].sn_mva,
                          p_mw |-> profile[LenT(InitialNet.sgen) + m][1],
                          q_mvar |-> profile[LenT(InitialNet.sgen) + m][2]]
                 ELSE InitialNet.load[j]]]

\* C26: the network handed to the solver at iteration k is a function of profile k
\* and of the initial network alone: earlier profiles and the outcome of earlier
\* solves leave no trace, so equal profiles are solved on equal networks wherever
\* they stand in the batch
C26_SetpointsFromProfileAlone ==
    /\ \A n \in 1 .. Len(solver_calls) :
          solver_calls[n].net = SetpointsOf(solver_calls[n].profile)
    /\ \A m, n \in 1 .. Len(solver_calls) :
          solver_calls[m].profile = solver_calls[n].profile =>
             /\ solver_calls[m].net = solver_calls[n].net
             /\ (solver_calls[m].res.converged /\ solver_calls[n].res.converged) =>
                   /\ solver_calls[m].res.ext_p = solver_calls[n].res.ext_p
                   /\ solver_calls[m].res.ext_q = solver_calls[n].res.ext_q

\* a failed solve, then a solve of another profile, then a converged solve of the
\* first profile again, on the network of the first solve
C26_Witness ==
    /\ Len(solver_calls) = 3
    /\ ~solver_calls[1].res.converged
    /\ solver_calls[2].profile # solver_calls[1].profile
    /\ solver_calls[2].net # solver_calls[1].net
    /\ solver_calls[3].profile = solver_calls[1].profile
    /\ solver_calls[3].res.converged
    /\ solver_calls[3].net = solver_calls[1].net

\* the iterations that ended: classified into a bucket, or discarded with a printed line
Finished == Len(x_flexible) + Len(x_non_flexible) + Len(log)

C29_SweepHasBatch ==
    mpc = "mc" => (calls = 1 /\ result.returned)

====
